---- MODULE Spec2Model ----
(***************************************************************************)
(* sdjson 0.0.2: a JSON encoder whose custom encoders are registered on    *)
(* the singledispatch function `dump` and looked up by                     *)
(* _CustomEncoder.default.  The model covers the registry, the two         *)
(* serialisers dumps/dump, the encoder classes and, because every          *)
(* serialiser ends in the json module's encode/iterencode, the part of     *)
(* that walk the serialisers depend on.                                    *)
(***************************************************************************)
EXTENDS Integers, Sequences, FiniteSets, TLC

\* ------------------------------------------------------------------ bounds
\* number of register() calls explored in one behaviour
MaxRegisterCalls == 2
\* depth at which the interpreter gives up a recursive walk (RecursionError)
MaxDepth == 6

\* ------------------------------------------------------------ class model
\* User classes: Leaf < Mid < Base < object, Blob < object.
UserClasses == {"Base", "Mid", "Leaf", "Blob"}
\* classes the behaviours register encoders for (Leaf and Blob stay
\* unregistered)
RegClasses == {"Base", "Mid"}

\* method resolution order of a class, most specific first
Mro(c) ==
  CASE c = "Leaf" -> <<"Leaf", "Mid", "Base", "object">>
    [] c = "Mid"  -> <<"Mid", "Base", "object">>
    [] c = "Base" -> <<"Base", "object">>
    [] c = "Blob" -> <<"Blob", "object">>
    [] OTHER      -> <<c, "object">>

SeqRange(s) == {s[i] : i \in 1..Len(s)}

\* issubclass(c, t)
IsSubclass(c, t) == t \in SeqRange(Mro(c))

\* ------------------------------------------------------------ value heap
\* Python objects, by identity.  items/keys hold identities, so a container
\* can contain itself.
MkNode(kind, cls, num, str, items, keys) ==
  [kind |-> kind, cls |-> cls, num |-> num, str |-> str, items |-> items, keys |-> keys]

IntNode(n)        == MkNode("int", "int", n, <<>>, <<>>, <<>>)
StrNode(s)        == MkNode("str", "str", 0, s, <<>>, <<>>)
ListNode(items)   == MkNode("list", "list", 0, <<>>, items, <<>>)
DictNode(ks, vs)  == MkNode("dict", "dict", 0, <<>>, vs, ks)
ObjNode(c)        == MkNode("obj", c, 0, <<>>, <<>>, <<>>)

Node(id) ==
  CASE id = 1  -> IntNode(1)
    [] id = 2  -> IntNode(12)
    [] id = 3  -> StrNode(<<"a">>)
    [] id = 4  -> MkNode("null", "NoneType", 0, <<>>, <<>>, <<>>)
    [] id = 5  -> MkNode("bool", "bool", 1, <<>>, <<>>, <<>>)
    [] id = 6  -> StrNode(<<"x">>)
    [] id = 7  -> StrNode(<<"y">>)
    [] id = 8  -> ListNode(<<1, 3, 4>>)           \* [1, "a", None]
    [] id = 9  -> DictNode(<<6, 7>>, <<1, 2>>)    \* {"x": 1, "y": 12}
    [] id = 10 -> DictNode(<<1>>, <<5>>)          \* {1: True}
    [] id = 11 -> ListNode(<<11>>)                \* a = []; a.append(a)
    [] id = 13 -> ObjNode("Mid")                  \* Mid(1, 2)
    [] id = 14 -> ObjNode("Leaf")                 \* Leaf(1, 2)
    [] id = 17 -> ObjNode("Blob")                 \* Blob(1, 2)
    [] id = 18 -> ListNode(<<14>>)                \* [Leaf(1, 2)]
    [] id = 19 -> StrNode(<<"a", "\"">>)          \* 'a"'
    [] id = 20 -> DictNode(<<6, 7>>, <<1, 2>>)    \* the dict encode_point builds
    [] OTHER   -> ListNode(<<id - 30>>)           \* the list encode_wrap builds

\* values handed to the serialisers
Primitives == {1, 3, 19}
NativeContainers == {8, 9, 10}
Cyclic == {11}
Objects == {13, 14, 17}
Values == Primitives \cup NativeContainers \cup Cyclic \cup Objects \cup {18}

\* ------------------------------------------------------- encoder functions
\* encode_point(p) = {"x": p.x, "y": p.y} (every object has x = 1, y = 12); encode_str(p) = "a";
\* encode_wrap(p) = [p], a structure that refers back to the object.
Handlers == {"encode_point", "encode_str", "encode_wrap"}

HandlerResult(h, o) ==
  CASE h = "encode_point" -> 20
    [] h = "encode_str"   -> 3
    [] OTHER              -> 30 + o

\* ---------------------------------------------------------------- results
\* The outcome of a call: the text returned, or the exception raised; calls
\* lists the registered encoders that ran, in order, as <<handler, object>>.
Ok(text, calls) ==
  [ok |-> TRUE, text |-> text, exc |-> "", why |-> "", calls |-> calls]

Fail(exc, why, calls) ==
  [ok |-> FALSE, text |-> <<>>, exc |-> exc, why |-> why, calls |-> calls]

\* the exceptions of the model
NotSerializable(calls) == Fail("TypeError", "not JSON serializable", calls)
UnexpectedOneShot == Fail("TypeError", "unexpected keyword argument _one_shot", <<>>)
WrongArity == Fail("TypeError", "takes 1 positional argument but 2 were given", <<>>)
Circular(calls) == Fail("ValueError", "Circular reference detected", calls)
TooDeep(calls) == Fail("RecursionError", "maximum recursion depth exceeded", calls)

\* ------------------------------------------------------------- the registry
\* dump.registry: an insertion-ordered dict type -> function.  singledispatch
\* enters the undecorated dump under object when the module is imported.
Entry(t, h) == [type |-> t, handler |-> h]

InitRegistry == <<Entry("object", "dump")>>

RegTypes(reg) == {reg[i].type : i \in 1..Len(reg)}

RegIndex(reg, t) == CHOOSE i \in 1..Len(reg) : reg[i].type = t

\* dump.register(t)(h): a dict store, which keeps the position of a key that
\* is already present
RegisterEntry(reg, t, h) ==
  IF t \in RegTypes(reg)
    THEN [reg EXCEPT ![RegIndex(reg, t)] = Entry(t, h)]
    ELSE Append(reg, Entry(t, h))

Min(S) == CHOOSE x \in S : \A y \in S : x <= y

\* functools.singledispatch's dispatch(cls): the registered class that comes
\* first in the method resolution order of cls
DispatchType(reg, c) ==
  LET mro == Mro(c)
      i == Min({j \in 1..Len(mro) : mro[j] \in RegTypes(reg)})
  IN  mro[i]

\* --------------------------------------------------------- encoder classes
\* "json.JSONEncoder" is the standard library's class, "JSONEncoder" and
\* "_CustomEncoder" are this module's; "None" is cls=None.
ClsArgs == {"None", "JSONEncoder", "json.JSONEncoder"}

\* result of default(o): the replacement object, or the exception
DefOk(val, calls) == [ok |-> TRUE, val |-> val, res |-> Ok(<<>>, calls)]
DefFail(res) == [ok |-> FALSE, val |-> 0, res |-> res]

\* JSONEncoder.default: the json module's default, which raises TypeError
JSONEncoder_default(o) == DefFail(NotSerializable(<<>>))

RECURSIVE Lookup(_, _, _)
\* the loop of _CustomEncoder.default over dump.registry.items(), from entry
\* i on: the index of the entry it returns from, 0 when it runs off the end
Lookup(reg, i, c) ==
  IF i > Len(reg) THEN 0
  ELSE IF IsSubclass(c, reg[i].type) /\ reg[i].type # "object" THEN i
  ELSE Lookup(reg, i + 1, c)

\* _CustomEncoder.default
CustomEncoder_default(o, reg) ==
  LET i == Lookup(reg, 1, Node(o).cls) IN
  IF i = 0
    THEN JSONEncoder_default(o)
    ELSE DefOk(HandlerResult(reg[i].handler, o), <<<<reg[i].handler, o>>>>)

Default(cls, o, reg) ==
  IF cls = "_CustomEncoder" THEN CustomEncoder_default(o, reg)
  ELSE JSONEncoder_default(o)

\* ---------------------------------------------------------------- JSON text
\* Text is a sequence of one-character strings.
DigitChar(d) == <<"0", "1", "2", "3", "4", "5", "6", "7", "8", "9">>[d + 1]

RECURSIVE Digits(_)
\* int.__repr__ of a non-negative int
Digits(n) == IF n < 10 THEN <<DigitChar(n)>> ELSE Digits(n \div 10) \o <<DigitChar(n % 10)>>

RECURSIVE Escape(_)
\* the body of encode_basestring_ascii for ASCII text: " and \ get a backslash
Escape(s) ==
  IF s = <<>> THEN <<>>
  ELSE (IF Head(s) \in {"\"", "\\"} THEN <<"\\", Head(s)>> ELSE <<Head(s)>>) \o Escape(Tail(s))

Quote(s) == <<"\"">> \o Escape(s) \o <<"\"">>

\* how the walk writes a value that needs no recursion
Atom(n) ==
  CASE n.kind = "str"  -> Quote(n.str)
    [] n.kind = "null" -> <<"n", "u", "l", "l">>
    [] n.kind = "bool" -> IF n.num = 1 THEN <<"t", "r", "u", "e">> ELSE <<"f", "a", "l", "s", "e">>
    [] OTHER           -> Digits(n.num)

\* a dict key: str as it is, int/bool/None through their text
KeyText(n) == IF n.kind = "str" THEN Quote(n.str) ELSE Quote(Atom(n))

IsAtom(n) == n.kind \in {"str", "null", "bool", "int"}

\* --------------------------------------------------------------- the walk
\* json.encoder's _iterencode, as parameterised by the encoder instance:
\* ctx.cls its class (whose default() is the hook), ctx.cc check_circular,
\* ctx.reg the registry at the time of the call.  markers holds the
\* identities of the containers and objects being walked.
Ctx(cls, cc, reg) == [cls |-> cls, cc |-> cc, reg |-> reg]

Enter(markers, id, ctx) == IF ctx.cc THEN markers \cup {id} ELSE markers

RECURSIVE Walk(_, _, _, _)
RECURSIVE WalkItems(_, _, _, _, _, _)

Walk(id, markers, depth, ctx) ==
  LET n == Node(id) IN
  IF depth > MaxDepth THEN TooDeep(<<>>)
  ELSE IF IsAtom(n) THEN Ok(Atom(n), <<>>)
  ELSE IF n.kind = "list" THEN
    IF n.items = <<>> THEN Ok(<<"[", "]">>, <<>>)
    ELSE IF ctx.cc /\ id \in markers THEN Circular(<<>>)
    ELSE LET r == WalkItems(n.items, <<>>, 1, Enter(markers, id, ctx), depth + 1, ctx)
         IN  IF r.ok THEN Ok(<<"[">> \o r.text \o <<"]">>, r.calls) ELSE r
  ELSE IF n.kind = "dict" THEN
    IF n.items = <<>> THEN Ok(<<"{", "}">>, <<>>)
    ELSE IF ctx.cc /\ id \in markers THEN Circular(<<>>)
    ELSE LET r == WalkItems(n.items, n.keys, 1, Enter(markers, id, ctx), depth + 1, ctx)
         IN  IF r.ok THEN Ok(<<"{">> \o r.text \o <<"}">>, r.calls) ELSE r
  ELSE
    IF ctx.cc /\ id \in markers THEN Circular(<<>>)
    ELSE LET d == Default(ctx.cls, id, ctx.reg) IN
         IF ~d.ok THEN d.res
         ELSE LET r == Walk(d.val, Enter(markers, id, ctx), depth + 1, ctx)
              IN  [r EXCEPT !.calls = d.res.calls \o r.calls]

\* the items of a list (keys = <<>>) or of a dict from position i on,
\* separated by ", ", each dict item as key ": " value
WalkItems(items, keys, i, markers, depth, ctx) ==
  IF i > Len(items) THEN Ok(<<>>, <<>>)
  ELSE
    LET sep  == IF i > 1 THEN <<",", " ">> ELSE <<>>
        key  == IF keys = <<>> THEN <<>> ELSE KeyText(Node(keys[i])) \o <<":", " ">>
        h    == Walk(items[i], markers, depth, ctx)
    IN  IF ~h.ok THEN h
        ELSE LET t == WalkItems(items, keys, i + 1, markers, depth, ctx)
             IN  IF ~t.ok THEN [t EXCEPT !.calls = h.calls \o t.calls]
                 ELSE Ok(sep \o key \o h.text \o t.text, h.calls \o t.calls)

\* JSONEncoder.iterencode(o) of this module: json's iterencode joined
JSONEncoder_iterencode(cls, o, cc, reg) == Walk(o, {}, 0, Ctx(cls, cc, reg))

\* whether cls.iterencode takes the keyword _one_shot that json's encode
\* passes: json.JSONEncoder.iterencode(self, o, _one_shot=False) does, this
\* module's override iterencode(self, o) does not
AcceptsOneShot(cls) == cls = "json.JSONEncoder"

\* cls(...).encode(o): json.JSONEncoder.encode, reached through super() from
\* this module's classes.  A str is written at once; anything else goes
\* through self.iterencode(o, _one_shot=True).
JSONEncoder_encode(cls, o, cc, reg) ==
  IF Node(o).kind = "str" THEN Ok(Quote(Node(o).str), <<>>)
  ELSE IF ~AcceptsOneShot(cls) THEN UnexpectedOneShot
  ELSE Walk(o, {}, 0, Ctx(cls, cc, reg))

\* dumps(obj, check_circular=cc, cls=cls): the shared _default_encoder when
\* every option has its default, else a fresh cls instance, _CustomEncoder
\* for cls=None
dumps(o, cls, cc, reg) ==
  IF cc /\ cls = "None" THEN JSONEncoder_encode("_CustomEncoder", o, TRUE, reg)
  ELSE JSONEncoder_encode(IF cls = "None" THEN "_CustomEncoder" ELSE cls, o, cc, reg)

\* json.dumps(obj, check_circular=cc, cls=cls) of the standard library
json_dumps(o, cls, cc, reg) ==
  JSONEncoder_encode(IF cls = "None" THEN "json.JSONEncoder" ELSE cls, o, cc, reg)

\* dump with json.dumps(obj) in place of json.dumps(obj, **kwargs)
dump_drops_kwargs(o, cc, reg) ==
  IF DispatchType(reg, Node(o).cls) = "object"
    THEN json_dumps(o, "None", TRUE, reg)
    ELSE WrongArity

\* dump(obj, fp, **kwargs): the singledispatch wrapper calls the function
\* registered for the class of obj with both arguments; the undecorated dump
\* is the one under object
dump(o, cc, reg) ==
  IF DispatchType(reg, Node(o).cls) = "object"
    THEN json_dumps(o, "None", cc, reg)
    ELSE WrongArity

\* ------------------------------------------------------------------ loads
\* What json.loads returns: a value without identity.  A dict keeps its keys
\* as strings.
MkTree(kind, num, str, items, keys) ==
  [kind |-> kind, num |-> num, str |-> str, items |-> items, keys |-> keys]

NullTree == MkTree("null", 0, <<>>, <<>>, <<>>)

POk(val, next) == [ok |-> TRUE, val |-> val, next |-> next]
PFail(i) == [ok |-> FALSE, val |-> NullTree, next |-> i]

IsDigit(c) == c \in {"0", "1", "2", "3", "4", "5", "6", "7", "8", "9"}
DigitVal(c) == CHOOSE d \in 0..9 : DigitChar(d) = c

At(s, i) == IF i <= Len(s) THEN s[i] ELSE ""

RECURSIVE SkipSpace(_, _)
SkipSpace(s, i) == IF At(s, i) = " " THEN SkipSpace(s, i + 1) ELSE i

Word(s, i, w) == i + Len(w) - 1 <= Len(s) /\ SubSeq(s, i, i + Len(w) - 1) = w

RECURSIVE ParseInt(_, _, _)
ParseInt(s, i, acc) ==
  IF IsDigit(At(s, i)) THEN ParseInt(s, i + 1, 10 * acc + DigitVal(s[i]))
  ELSE POk(MkTree("int", acc, <<>>, <<>>, <<>>), i)

RECURSIVE ParseString(_, _, _)
\* from the character after the opening quote
ParseString(s, i, acc) ==
  IF i > Len(s) THEN PFail(i)
  ELSE IF s[i] = "\"" THEN POk(MkTree("str", 0, acc, <<>>, <<>>), i + 1)
  ELSE IF s[i] = "\\" THEN
    IF At(s, i + 1) \in {"\"", "\\"} THEN ParseString(s, i + 2, Append(acc, s[i + 1]))
    ELSE PFail(i)
  ELSE ParseString(s, i + 1, Append(acc, s[i]))

RECURSIVE ParseValue(_, _)
RECURSIVE ParseElems(_, _, _)
RECURSIVE ParseMembers(_, _, _, _)

ParseValue(s, i0) ==
  LET i == SkipSpace(s, i0)
      c == At(s, i)
  IN  IF Word(s, i, <<"n", "u", "l", "l">>) THEN POk(NullTree, i + 4)
      ELSE IF Word(s, i, <<"t", "r", "u", "e">>) THEN POk(MkTree("bool", 1, <<>>, <<>>, <<>>), i + 4)
      ELSE IF Word(s, i, <<"f", "a", "l", "s", "e">>) THEN POk(MkTree("bool", 0, <<>>, <<>>, <<>>), i + 5)
      ELSE IF IsDigit(c) THEN ParseInt(s, i, 0)
      ELSE IF c = "\"" THEN ParseString(s, i + 1, <<>>)
      ELSE IF c = "[" THEN
        IF At(s, SkipSpace(s, i + 1)) = "]"
          THEN POk(MkTree("list", 0, <<>>, <<>>, <<>>), SkipSpace(s, i + 1) + 1)
          ELSE ParseElems(s, i + 1, <<>>)
      ELSE IF c = "{" THEN
        IF At(s, SkipSpace(s, i + 1)) = "}"
          THEN POk(MkTree("dict", 0, <<>>, <<>>, <<>>), SkipSpace(s, i + 1) + 1)
          ELSE ParseMembers(s, i + 1, <<>>, <<>>)
      ELSE PFail(i)

ParseElems(s, i, acc) ==
  LET v == ParseValue(s, i) IN
  IF ~v.ok THEN v
  ELSE LET j == SkipSpace(s, v.next) IN
       IF At(s, j) = "," THEN ParseElems(s, j + 1, Append(acc, v.val))
       ELSE IF At(s, j) = "]" THEN POk(MkTree("list", 0, <<>>, Append(acc, v.val), <<>>), j + 1)
       ELSE PFail(j)

ParseMembers(s, i0, keys, vals) ==
  LET i == SkipSpace(s, i0) IN
  IF At(s, i) # "\"" THEN PFail(i)
  ELSE LET k == ParseString(s, i + 1, <<>>) IN
    IF ~k.ok THEN k
    ELSE LET c == SkipSpace(s, k.next) IN
      IF At(s, c) # ":" THEN PFail(c)
      ELSE LET v == ParseValue(s, c + 1) IN
        IF ~v.ok THEN v
        ELSE LET j == SkipSpace(s, v.next) IN
          IF At(s, j) = "," THEN ParseMembers(s, j + 1, Append(keys, k.val.str), Append(vals, v.val))
          ELSE IF At(s, j) = "}"
            THEN POk(MkTree("dict", 0, <<>>, Append(vals, v.val), Append(keys, k.val.str)), j + 1)
          ELSE PFail(j)

\* loads(s): one value, then nothing but white space (else JSONDecodeError)
loads(s) ==
  LET v == ParseValue(s, 1) IN
  IF v.ok /\ SkipSpace(s, v.next) = Len(s) + 1 THEN v ELSE PFail(v.next)

RECURSIVE Tree(_)
\* the value a native, acyclic object stands for, after the normalisation of
\* a dump/load cycle: dict keys become the strings they are written as
Tree(id) ==
  LET n == Node(id) IN
  CASE n.kind \in {"int", "bool"} -> MkTree(n.kind, n.num, <<>>, <<>>, <<>>)
    [] n.kind = "str"  -> MkTree("str", 0, n.str, <<>>, <<>>)
    [] n.kind = "null" -> NullTree
    [] n.kind = "list" -> MkTree("list", 0, <<>>, [i \in 1..Len(n.items) |-> Tree(n.items[i])], <<>>)
    [] OTHER           ->
         MkTree("dict", 0, <<>>, [i \in 1..Len(n.items) |-> Tree(n.items[i])],
                [i \in 1..Len(n.keys) |->
                   IF Node(n.keys[i]).kind = "str" THEN Node(n.keys[i]).str ELSE Atom(Node(n.keys[i]))])

\* ------------------------------------------------------------------ state
VARIABLES
  registry,   \* dump.registry
  replaced,   \* <<type, handler>> pairs a later register() call overwrote
  nregs,      \* register() calls so far
  last,       \* the last call: what was called, with what, and its outcome
  fp          \* the stream handed to the last call, fresh for each dump();
              \* empty when the call took none

vars == <<registry, replaced, nregs, last, fp>>

Call(op, arg, cls, cc, res) ==
  [op |-> op, arg |-> arg, cls |-> cls, cc |-> cc, res |-> res]

Init ==
  /\ registry = InitRegistry
  /\ replaced = {}
  /\ nregs = 0
  /\ last = Call("import", 0, "None", TRUE, Ok(<<>>, <<>>))
  /\ fp = <<>>

\* @dump.register(t) def h(obj): ...  (last.cls records the class registered)
Register(t, h) ==
  /\ nregs < MaxRegisterCalls
  /\ nregs' = nregs + 1
  /\ registry' = RegisterEntry(registry, t, h)
  /\ replaced' =
       (replaced \ {<<t, h>>}) \cup
         (IF t \in RegTypes(registry) /\ registry[RegIndex(registry, t)].handler # h
            THEN {<<t, registry[RegIndex(registry, t)].handler>>} ELSE {})
  /\ last' = Call("register", 0, t, TRUE, Ok(<<>>, <<>>))
  /\ fp' = <<>>

\* sdjson.dumps(v, cls=cls, check_circular=cc)
Dumps(v, cls, cc) ==
  /\ last' = Call("dumps", v, cls, cc, dumps(v, cls, cc, registry))
  /\ fp' = <<>>
  /\ UNCHANGED <<registry, replaced, nregs>>

\* sdjson.dump(v, fp, check_circular=cc) on a fresh stream: one write per
\* character of the text, none when the call raises
Dump(v, cc) ==
  LET r == dump(v, cc, registry) IN
  /\ last' = Call("dump", v, "None", cc, [r EXCEPT !.text = <<>>])
  /\ fp' = r.text
  /\ UNCHANGED <<registry, replaced, nregs>>

\* _default_encoder.default(v), the hook on its own
CallDefault(v) ==
  LET d == CustomEncoder_default(v, registry) IN
  /\ last' = Call("default", v, "_CustomEncoder", TRUE,
                  [d.res EXCEPT !.text = IF d.ok THEN <<"#">> \o Digits(d.val) ELSE <<>>])
  /\ fp' = <<>>
  /\ UNCHANGED <<registry, replaced, nregs>>

\* "".join(_default_encoder.iterencode(v)): the walk without encode()
Iterencode(v) ==
  /\ last' = Call("iterencode", v, "_CustomEncoder", TRUE,
                  JSONEncoder_iterencode("_CustomEncoder", v, TRUE, registry))
  /\ fp' = <<>>
  /\ UNCHANGED <<registry, replaced, nregs>>

Next ==
  \/ \E t \in RegClasses, h \in Handlers : Register(t, h)
  \/ \E v \in Values, cls \in ClsArgs, cc \in BOOLEAN : Dumps(v, cls, cc)
  \/ \E v \in Values, cc \in BOOLEAN : Dump(v, cc)
  \/ \E v \in Objects : CallDefault(v)
  \/ \E v \in Objects \cup {18} : Iterencode(v)

Spec == Init /\ [][Next]_vars

\* ------------------------------------------------------ terms of the claims
Arg == last.arg
Res == last.res
IsObj(v) == Node(v).kind = "obj"
ClassOf(v) == Node(v).cls
HandlerOf(t) == registry[RegIndex(registry, t)].handler
Invoked == SeqRange(Res.calls)

\* the registered types, other than object, that the class c is or inherits
Matches(reg, c) ==
  {i \in 1..Len(reg) : IsSubclass(c, reg[i].type) /\ reg[i].type # "object"}

\* serialize_to_string that leaves the choice of encoder to the module
DumpsWithRegistry == last.op = "dumps" /\ last.cls = "None"
\* serialize_to_string with every option at its default
DumpsDefault == DumpsWithRegistry /\ last.cc
\* the serialisers that are meant to consult the registry
Encodes == DumpsWithRegistry \/ last.op = "dump"

\* the walk of v, custom encoders applied, comes back to an object it is
\* inside of: without the check it never ends
HasCycle(v) ==
  JSONEncoder_iterencode("_CustomEncoder", v, FALSE, registry).exc = "RecursionError"

\* the text of the native value v in the json module's default format
NativeText(v) == Walk(v, {}, 0, Ctx("json.JSONEncoder", TRUE, InitRegistry)).text

\* ------------------------------------------------------------------ claims

\* C1: for a type T registered with encoder f and a value v of type T,
\* dumps(v) returns exactly the text dumps(f(v)) returns; with encode_point
\* registered, that is the text of {"x": 1, "y": 12}, keys in that order.
C1_RegisteredTypeEncodesAsEncoderResult ==
  (DumpsWithRegistry /\ IsObj(Arg) /\ ClassOf(Arg) \in RegTypes(registry)) =>
    LET f == HandlerOf(ClassOf(Arg))
        r == dumps(HandlerResult(f, Arg), "None", last.cc, registry)
    IN  /\ r.ok => (Res.ok /\ Res.text = r.text)
        /\ f = "encode_point" => (Res.ok /\ Res.text = NativeText(9))

\* C2: dump(v, fp, options) behaves as dumps(v, options): it writes to fp
\* exactly the characters dumps returns, in order, and fails with the same
\* error whenever dumps fails.
C2_DumpWritesWhatDumpsReturns ==
  last.op = "dump" =>
    LET r == dumps(Arg, "None", last.cc, registry)
    IN  /\ Res.ok = r.ok
        /\ r.ok => fp = r.text
        /\ ~r.ok => (Res.exc = r.exc /\ Res.why = r.why)

\* C3: with cls=JSONEncoder the registry is not consulted: for a value of a
\* registered type no registered encoder runs and the call fails with the
\* unserializable-type TypeError.
C3_BaseEncoderClassBypassesRegistry ==
  (last.op = "dumps" /\ last.cls = "JSONEncoder" /\ IsObj(Arg)
     /\ Matches(registry, ClassOf(Arg)) # {}) =>
    /\ Invoked = {}
    /\ ~Res.ok /\ Res.exc = "TypeError" /\ Res.why = "not JSON serializable"

\* C4: registering T again raises nothing, and once f1 has been replaced by
\* f2 for T every encode of a value of type T invokes f2 and never f1.
C4_ReRegistrationReplacesEncoder ==
  /\ last.op = "register" => Res.ok
  /\ \A f1 \in Handlers :
       (Encodes /\ IsObj(Arg) /\ <<ClassOf(Arg), f1>> \in replaced) =>
         /\ <<HandlerOf(ClassOf(Arg)), Arg>> \in Invoked
         /\ <<f1, Arg>> \notin Invoked

\* C5: for a value whose class S is not registered and whose nearest
\* registered ancestor is T, dumps invokes T's encoder on the value and does
\* not fail with the unserializable-type error.
C5_SubtypeUsesAncestorEncoder ==
  (DumpsWithRegistry /\ IsObj(Arg) /\ ClassOf(Arg) \notin RegTypes(registry)
     /\ Matches(registry, ClassOf(Arg)) # {}) =>
    /\ <<HandlerOf(DispatchType(registry, ClassOf(Arg))), Arg>> \in Invoked
    /\ Res.why # "not JSON serializable"

\* C6: for a value with no native representation and no registry match but
\* the root object entry, dumps fails with the json module's
\* unserializable-type TypeError; no encoder, the root entry included, runs.
C6_UnregisteredTypeFailsNatively ==
  (DumpsWithRegistry /\ IsObj(Arg) /\ Matches(registry, ClassOf(Arg)) = {}) =>
    /\ Invoked = {}
    /\ ~Res.ok /\ Res.exc = "TypeError" /\ Res.why = "not JSON serializable"

\* C7: with check_circular on, encoding a value whose walk contains a cycle,
\* native or brought in by a custom encoder, fails with the
\* circular-reference ValueError.
C7_CycleFailsWithCircularError ==
  (Encodes /\ last.cc /\ HasCycle(Arg)) =>
    (~Res.ok /\ Res.exc = "ValueError" /\ Res.why = "Circular reference detected")

\* C8 as stated: with check_circular off, encoding a value whose walk
\* contains a cycle succeeds and returns finite output.
C8_Original_UncheckedCycleSucceeds ==
  (last.op \in {"dumps", "dump"} /\ ~last.cc /\ HasCycle(Arg)) => Res.ok

\* C8, amended: with check_circular off, encoding a value whose walk
\* contains a cycle never returns and never raises the circular-reference
\* error: the call ends in RecursionError or TypeError, and dump of a cycle
\* of native containers ends in RecursionError.
C8_UncheckedCycleFailsWithoutCircularError ==
  (last.op \in {"dumps", "dump"} /\ ~last.cc /\ HasCycle(Arg)) =>
    /\ ~Res.ok
    /\ Res.exc \in {"RecursionError", "TypeError"}
    /\ (last.op = "dump" /\ Arg \in Cyclic) => Res.exc = "RecursionError"
    /\ fp = <<>>

\* dump(a, fp, check_circular=False) of a list that contains itself has run
\* out of stack
C8_Witness_DumpOfUncheckedCycle ==
  /\ last.op = "dump" /\ Arg \in Cyclic /\ ~last.cc
  /\ HasCycle(Arg)
  /\ Res.exc = "RecursionError"

\* C9: for a primitive or a native container of primitives, dumps with the
\* default options succeeds and loads of its result is the value again, up
\* to the json module's normalisation.
C9_RoundTrip ==
  (DumpsDefault /\ Arg \in Primitives \cup NativeContainers) =>
    /\ Res.ok
    /\ loads(Res.text).ok
    /\ loads(Res.text).val = Tree(Arg)

\* C10: when two registered types are both ancestors of the class of a value
\* and the class itself is not registered, dumps runs the encoder of the one
\* registered first; the root object entry is skipped.
C10_FirstRegisteredAncestorWins ==
  (DumpsWithRegistry /\ IsObj(Arg) /\ ClassOf(Arg) \notin RegTypes(registry)
     /\ Cardinality(Matches(registry, ClassOf(Arg))) >= 2) =>
    /\ Res.calls # <<>>
    /\ Res.calls[1] = <<registry[Min(Matches(registry, ClassOf(Arg)))].handler, Arg>>
    /\ <<"dump", Arg>> \notin Invoked

\* ------------------------------------------ the hook, reached without encode
\* What _CustomEncoder.default does when the walk does reach it, through
\* iterencode() or called by hand.

\* the encoder that runs first is the one of the first registered ancestor,
\* never the root entry; with no ancestor registered nothing runs and the
\* TypeError is the json module's
Hook_FirstRegisteredAncestorWins ==
  (last.op \in {"iterencode", "default"} /\ IsObj(Arg)) =>
    IF Matches(registry, ClassOf(Arg)) = {}
      THEN Invoked = {} /\ Res.why = "not JSON serializable"
      ELSE Res.calls[1] = <<registry[Min(Matches(registry, ClassOf(Arg)))].handler, Arg>>

\* a cycle brought in by an encoder is caught by the walk's own check
Hook_CycleThroughEncoderIsCaught ==
  (last.op = "iterencode" /\ HasCycle(Arg)) => Res.why = "Circular reference detected"

\* a stream is written only by a dump that returns
StreamWrittenOnlyOnSuccess ==
  fp # <<>> => (last.op = "dump" /\ Res.ok)

====
